---- MODULE Spec2Model ----
(***************************************************************************)
(* bunnysync: one-directional synchronisation of a local directory tree    *)
(* with a bunny.net storage zone (src/src/main.rs, storage.rs, local.rs).  *)
(*                                                                         *)
(* Paths are sequences of segments: "/z/d/b", "z/d/b" and "/z/d//b" are    *)
(* all <<"z","d","b">>, which is how the storage server and the            *)
(* filesystem resolve them.  Timestamps are integers, file contents are    *)
(* sequences of bytes and a length is the length of the content.           *)
(***************************************************************************)
EXTENDS Bags, FiniteSets, Integers, Sequences, TLC

\* ---------------------------------------------------------------- bounds
\* Timestamps of the entries that exist before the first run: 1..MaxTime.
MaxTime == 2
\* Number of consecutive invocations of the program that are followed.
MaxRuns == 2

\* ------------------------------------------------------------- the world
Zone == "z"
LocalRoot == <<"w">>
Times == 1..MaxTime
\* The time at which a run writes; no entry of the initial trees is newer.
Now == MaxTime

Front(s) == SubSeq(s, 1, Len(s) - 1)
Last(s) == s[Len(s)]
IsPrefix(p, s) == Len(p) <= Len(s) /\ SubSeq(s, 1, Len(p)) = p
Range(f) == {f[x] : x \in DOMAIN f}
EmptyMap == [k \in {} |-> {}]
\* All orders in which the elements of a finite set can be returned.
SeqsOf(S) == {sq \in [1..Cardinality(S) -> S] : Range(sq) = S}

\* A remote object as the server stores it; the listing shows every field
\* but data.
StorageObject(path, name, t, d, dir) ==
    [path |-> path, object_name |-> name, length |-> Len(d),
     last_changed |-> t, is_directory |-> dir, data |-> d]
\* A node of the local filesystem.
FsNode(path, t, d, dir) ==
    [path |-> path, is_directory |-> dir, last_changed |-> t,
     length |-> Len(d), data |-> d]

ObjectKey(o) == Append(o.path, o.object_name)

\* ------------------------------------------------------ pure functions
\* Characters of the names and patterns that occur in the model.
Chars(s) ==
    CASE s = "a" -> <<"a">>
      [] s = "b" -> <<"b">>
      [] s = "d" -> <<"d">>
      [] s = "z" -> <<"z">>
      [] s = "w" -> <<"w">>
      [] s = "*" -> <<"*">>
      [] s = "a*" -> <<"a", "*">>
      [] s = "aa" -> <<"a", "a">>
      [] s = "ab" -> <<"a", "b">>
      [] s = "ba" -> <<"b", "a">>
      [] s = "bb" -> <<"b", "b">>
      [] s = "b*" -> <<"b", "*">>
      [] s = "*a" -> <<"*", "a">>
      [] s = "*b" -> <<"*", "b">>
      [] s = "**" -> <<"*", "*">>
      [] OTHER -> <<s>>

\* glob_match(glob, path) of the glob_match crate, for globs made of
\* literal characters and the wildcard * (which does not cross a /).
RECURSIVE glob_match(_, _)
glob_match(glob, path) ==
    IF glob = <<>> THEN path = <<>>
    ELSE IF Head(glob) = "*"
         THEN \/ glob_match(Tail(glob), path)
              \/ /\ path # <<>>
                 /\ Head(path) # "/"
                 /\ glob_match(glob, Tail(path))
         ELSE /\ path # <<>>
              /\ Head(path) = Head(glob)
              /\ glob_match(Tail(glob), Tail(path))

\* main.rs:308-312.  The file name is passed as the crate's first argument
\* (the glob) and the pattern as its second (the path).
is_excluded(file_name, exclude_patterns) ==
    \E i \in DOMAIN exclude_patterns :
        glob_match(Chars(file_name), Chars(exclude_patterns[i]))

\* storage.rs:163-172: the first non-empty segment.
zone_name(remote_path) == IF remote_path = <<>> THEN "" ELSE remote_path[1]

\* local.rs:38-53: strip a leading /zone/, push the rest on the local base.
\* Pushing an absolute path replaces the base (PathBuf::push); no symbolic
\* links exist, so canonicalize keeps the path.
get_path(local_base, zone, remote_path) ==
    IF remote_path # <<>> /\ remote_path[1] = zone
    THEN local_base \o Tail(remote_path)
    ELSE remote_path

\* main.rs:295-299: "/" + zone_name + "/" + relative_path.
LocalKey(zone, relative_path) == <<zone>> \o relative_path

\* local.rs:14-33: every node at or below the root, the root included.
get_files(filesystem, root) ==
    {[relative_path |-> SubSeq(n.path, Len(root) + 1, Len(n.path)),
      path |-> n.path, is_directory |-> n.is_directory,
      last_changed |-> n.last_changed, length |-> n.length]
        : n \in {m \in filesystem : IsPrefix(root, m.path)}}

\* The listing of one pseudo-directory: the entries whose container it is.
get_objects(store, path) == {o \in store : o.path = path}
\* The server lists the zone root and existing pseudo-directories only.
Listable(store, path) ==
    \/ path = <<Zone>>
    \/ \E o \in store : o.is_directory /\ ObjectKey(o) = path

\* main.rs:264-271: files only, leaf name not excluded, keyed by path+name.
RemoteFileMap(objs, excl) ==
    LET keep == {o \in objs : ~o.is_directory
                              /\ ~is_excluded(o.object_name, excl)}
    IN [k \in {ObjectKey(o) : o \in keep} |->
            CHOOSE o \in keep : ObjectKey(o) = k]

\* main.rs:284-303.
LocalFileMap(files, zone, excl) ==
    LET keep == {f \in files : ~f.is_directory
                               /\ ~is_excluded(Last(f.path), excl)}
    IN [k \in {LocalKey(zone, f.relative_path) : f \in keep} |->
            CHOOSE f \in keep : LocalKey(zone, f.relative_path) = k]

\* --------------------------------------------------------------- state
VARIABLES
    mode,          \* "push" (sync_to_remote) or "pull" (sync_to_local)
    dry_run, delete, exclude,   \* Args
    remote,        \* the remote argument after strip_zone_prefix
    store,         \* the objects of the storage zone
    fs,            \* the nodes of the local filesystem
    pc,            \* position of the run
    paths,         \* get_all_objects: pending paths (a stack)
    objects,       \* get_all_objects: accumulated records (a bag)
    remote_files,  \* SyncKey -> StorageObject
    local_files,   \* SyncKey -> LocalFile
    visited,       \* keys the update loop has iterated over
    swept,         \* keys the delete loop has iterated over
    calls,         \* storage and filesystem calls issued by this run
    actions,       \* Transfer / Delete decisions taken by this run
    output,        \* lines printed by this run
    result,        \* "none" while running, then "ok" or "err"
    run,           \* number of the current invocation
    start,         \* store and fs when the current invocation began
    prev,          \* flags, decisions and output of the previous invocation
    input,         \* arguments of the function or program under study
    returned       \* <<>>, then <<v>> once it has returned v

vars == <<mode, dry_run, delete, exclude, remote, store, fs, pc, paths,
          objects, remote_files, local_files, visited, swept, calls,
          actions, output, result, run, start, prev, input, returned>>

Call(op, path, ok) == [op |-> op, path |-> path, ok |-> ok]
Action(kind, key) == [kind |-> kind, key |-> key]
Line(text, key) == [text |-> text, key |-> key]

MutatingOps == {"put", "delete", "write", "mkdir", "remove"}

\* ----------------------------------------------------- initial states
LocalDatas == {<<1>>, <<1, 1>>}
RemoteDatas == {<<1>>, <<2>>, <<1, 1>>}
DirNode(path) == FsNode(path, 1, <<>>, TRUE)
DirObject(path, name) == StorageObject(path, name, 1, <<>>, TRUE)

\* The local root, a file a, a directory d with a file b; and a file /z/a
\* that lies outside the local root.
LocalA == {{}} \cup {{FsNode(<<"w", "a">>, t, d, FALSE)} :
                        t \in Times, d \in LocalDatas}
LocalD == {{}, {DirNode(<<"w", "d">>)},
           {DirNode(<<"w", "d">>), FsNode(<<"w", "d", "b">>, 1, <<1>>, FALSE)}}
Outside == {DirNode(<<"z">>), FsNode(<<"z", "a">>, 1, <<2>>, FALSE)}
FsWorlds == {{DirNode(LocalRoot)} \cup a \cup d \cup Outside :
                a \in LocalA, d \in LocalD}

\* The zone z with an object a, a pseudo-directory d with an object b.
RemoteA == {{}} \cup {{StorageObject(<<"z">>, "a", t, d, FALSE)} :
                         t \in Times, d \in RemoteDatas}
RemoteD == {{}, {DirObject(<<"z">>, "d")}}
           \cup {{DirObject(<<"z">>, "d"),
                  StorageObject(<<"z", "d">>, "b", 1, d, FALSE)} :
                    d \in {<<1>>, <<1, 1>>}}
StoreWorlds == {a \cup d : a \in RemoteA, d \in RemoteD}

Roots == {<<"z">>, <<"z", "d">>}
ExcludeLists == {<<>>, <<"b", "a*">>}
NoPrev == [dry_run |-> FALSE, actions |-> <<>>, output |-> <<>>]

\* The locals of a run before its first statement.
RunInit ==
    /\ pc = "listing"
    /\ paths = <<remote>>
    /\ objects = EmptyBag
    /\ remote_files = EmptyMap
    /\ local_files = EmptyMap
    /\ visited = {}
    /\ swept = {}
    /\ calls = <<>>
    /\ actions = <<>>
    /\ output = <<>>
    /\ result = "none"

Init ==
    /\ mode \in {"push", "pull"}
    /\ dry_run \in BOOLEAN
    /\ delete \in BOOLEAN
    /\ exclude \in ExcludeLists
    /\ remote \in Roots
    /\ store \in StoreWorlds
    /\ fs \in FsWorlds
    /\ RunInit
    /\ run = 1
    /\ start = [store |-> store, fs |-> fs]
    /\ prev = NoPrev
    /\ input = <<>>
    /\ returned = <<>>

\* Return Err(e): the `?` operator leaves the function at once.
Fail ==
    /\ pc' = "done"
    /\ result' = "err"

\* Mutant: the directories found replace the pending paths.
ListOk_pending_replaced ==
    /\ pc = "listing"
    /\ paths # <<>>
    /\ LET next_path == Last(paths)
           records == get_objects(store, next_path)
           dirs == {o \in records : o.is_directory}
       IN /\ Listable(store, next_path)
          /\ \E sq \in SeqsOf(dirs) :
                paths' =
                         [i \in 1..Len(sq) |->
                            Append(sq[i].path, sq[i].object_name)]
          /\ objects' = objects (+) SetToBag(records)
          /\ calls' = Append(calls, Call("list", next_path, TRUE))
    /\ UNCHANGED <<mode, dry_run, delete, exclude, remote, store, fs, pc,
                   remote_files, local_files, visited, swept, actions, output,
                   result, run, start, prev, input, returned>>

\* ------------------------------------------- storage.rs get_all_objects
\* storage.rs:95-103, one iteration whose get_objects succeeds.
ListOk ==
    /\ pc = "listing"
    /\ paths # <<>>
    /\ LET next_path == Last(paths)
           records == get_objects(store, next_path)
           dirs == {o \in records : o.is_directory}
       IN /\ Listable(store, next_path)
          /\ \E sq \in SeqsOf(dirs) :
                paths' = Front(paths) \o
                         [i \in 1..Len(sq) |->
                            Append(sq[i].path, sq[i].object_name)]
          /\ objects' = objects (+) SetToBag(records)
          /\ calls' = Append(calls, Call("list", next_path, TRUE))
    /\ UNCHANGED <<mode, dry_run, delete, exclude, remote, store, fs, pc,
                   remote_files, local_files, visited, swept, actions, output,
                   result, run, start, prev, input, returned>>

\* Mutant: a failed listing ends the loop and what was accumulated is
\* returned.
ListFail_partial ==
    /\ pc = "listing"
    /\ paths # <<>>
    /\ calls' = Append(calls, Call("list", Last(paths), FALSE))
    /\ paths' = <<>>
    /\ UNCHANGED <<mode, dry_run, delete, exclude, remote, store, fs, pc,
                   objects, remote_files, local_files, visited, swept,
                   actions, output, result, run, start, prev, input,
                   returned>>

\* storage.rs:96, get_objects fails: get_all_objects returns the error and
\* its locals are dropped.
ListFail ==
    /\ pc = "listing"
    /\ paths # <<>>
    /\ calls' = Append(calls, Call("list", Last(paths), FALSE))
    /\ paths' = <<>>
    /\ objects' = EmptyBag
    /\ Fail
    /\ UNCHANGED <<mode, dry_run, delete, exclude, remote, store, fs,
                   remote_files, local_files, visited, swept, actions, output,
                   run, start, prev, input, returned>>

\* Mutant: the loop may end while paths are still pending.
ListReturn_early ==
    /\ pc = "listing"
    /\ remote_files' = RemoteFileMap(BagToSet(objects), exclude)
    /\ pc' = "walk"
    /\ UNCHANGED <<mode, dry_run, delete, exclude, remote, store, fs, paths,
                   objects, local_files, visited, swept, calls, actions,
                   output, result, run, start, prev, input, returned>>

\* storage.rs:104 and main.rs:262-272: the listing is complete and
\* get_remote_file_map folds it into the map.
ListReturn ==
    /\ pc = "listing"
    /\ paths = <<>>
    /\ remote_files' = RemoteFileMap(BagToSet(objects), exclude)
    /\ pc' = "walk"
    /\ UNCHANGED <<mode, dry_run, delete, exclude, remote, store, fs, paths,
                   objects, local_files, visited, swept, calls, actions,
                   output, result, run, start, prev, input, returned>>

\* ----------------------------------------- main.rs get_local_file_map
WalkOk ==
    /\ pc = "walk"
    /\ local_files' = LocalFileMap(get_files(fs, LocalRoot),
                                   zone_name(remote), exclude)
    /\ calls' = Append(calls, Call("walk", LocalRoot, TRUE))
    /\ pc' = "transfer"
    /\ UNCHANGED <<mode, dry_run, delete, exclude, remote, store, fs, paths,
                   objects, remote_files, visited, swept, actions, output,
                   result, run, start, prev, input, returned>>

\* Mutant: a failed walk counts as an empty local tree.
WalkFail_as_empty ==
    /\ pc = "walk"
    /\ calls' = Append(calls, Call("walk", LocalRoot, FALSE))
    /\ pc' = "transfer"
    /\ UNCHANGED <<mode, dry_run, delete, exclude, remote, store, fs, paths,
                   objects, remote_files, local_files, visited, swept,
                   actions, output, result, run, start, prev, input,
                   returned>>

WalkFail ==
    /\ pc = "walk"
    /\ calls' = Append(calls, Call("walk", LocalRoot, FALSE))
    /\ Fail
    /\ UNCHANGED <<mode, dry_run, delete, exclude, remote, store, fs, paths,
                   objects, remote_files, local_files, visited, swept,
                   actions, output, run, start, prev, input, returned>>

\* ------------------------------------------------ effects of the calls
NodeAt(filesystem, path) == {n \in filesystem : n.path = path}
ObjectAt(objs, path) == {o \in objs : ObjectKey(o) = path}

\* put_object: the uploaded bytes replace whatever the path named.
PutObject(objs, path, data) ==
    (objs \ ObjectAt(objs, path))
        \cup {StorageObject(Front(path), Last(path), Now, data, FALSE)}
DeleteObject(objs, path) == objs \ ObjectAt(objs, path)
\* std::fs::write: create or truncate the file, modified now.
WriteFile(filesystem, path, data) ==
    (filesystem \ NodeAt(filesystem, path))
        \cup {FsNode(path, Now, data, FALSE)}
\* std::fs::create_dir_all: the directory and its missing ancestors.
CreateDirAll(filesystem, dir) ==
    filesystem \cup
        {DirNode(SubSeq(dir, 1, i)) :
            i \in {j \in 1..Len(dir) :
                     NodeAt(filesystem, SubSeq(dir, 1, j)) = {}}}
RemoveFile(filesystem, path) == filesystem \ NodeAt(filesystem, path)

\* ------------------------------------- main.rs sync_to_remote, lines 142-164
\* Mutant: the timestamp comparison is strict.
Unchanged_strict(local_file, remote_file) ==
    /\ local_file.last_changed < remote_file.last_changed
    /\ local_file.length = remote_file.length

\* main.rs:150-151 and 200-201: the entry is considered unchanged.
Unchanged(local_file, remote_file) ==
    /\ local_file.last_changed <= remote_file.last_changed
    /\ local_file.length = remote_file.length

\* Mutant: the upload goes to the path of the file's key.
PutPath_from_key(k) == k

\* main.rs:159: the path argument of put_object is `&remote`, the root path
\* of the run, for every file.
PutPath(k) == remote

PushSkips(k) ==
    \/ is_excluded(Last(local_files[k].path), exclude)
    \/ /\ k \in DOMAIN remote_files
       /\ Unchanged(local_files[k], remote_files[k])

PushLoop(k) ==
    /\ pc = "transfer"
    /\ mode = "push"
    /\ k \in DOMAIN local_files \ visited
    /\ visited' = visited \cup {k}

\* main.rs:145-154: continue.
PushSkip ==
    \E k \in DOMAIN local_files :
        /\ PushLoop(k)
        /\ PushSkips(k)
        /\ UNCHANGED <<mode, dry_run, delete, exclude, remote, store, fs, pc,
                       paths, objects, remote_files, local_files, swept,
                       calls, actions, output, result, run, start, prev,
                       input, returned>>

\* Mutant: the dry run reports every local file.
PushDry_every_file ==
    \E k \in DOMAIN local_files :
        /\ PushLoop(k)
        /\ dry_run
        /\ actions' = Append(actions, Action("transfer", k))
        /\ output' = Append(output, Line("Would update", k))
        /\ UNCHANGED <<mode, dry_run, delete, exclude, remote, store, fs, pc,
                       paths, objects, remote_files, local_files, swept,
                       calls, result, run, start, prev, input, returned>>

\* main.rs:162.
PushDry ==
    \E k \in DOMAIN local_files :
        /\ PushLoop(k)
        /\ ~PushSkips(k)
        /\ dry_run
        /\ actions' = Append(actions, Action("transfer", k))
        /\ output' = Append(output, Line("Would update", k))
        /\ UNCHANGED <<mode, dry_run, delete, exclude, remote, store, fs, pc,
                       paths, objects, remote_files, local_files, swept,
                       calls, result, run, start, prev, input, returned>>

\* main.rs:158, std::fs::read fails.
PushReadFail ==
    \E k \in DOMAIN local_files :
        /\ PushLoop(k)
        /\ ~PushSkips(k)
        /\ ~dry_run
        /\ actions' = Append(actions, Action("transfer", k))
        /\ calls' = Append(calls, Call("read", local_files[k].path, FALSE))
        /\ Fail
        /\ UNCHANGED <<mode, dry_run, delete, exclude, remote, store, fs,
                       paths, objects, remote_files, local_files, swept,
                       output, run, start, prev, input, returned>>

\* Mutant: the error of put_object is dropped and the loop goes on.
PushPutFail_swallowed ==
    \E k \in DOMAIN local_files :
        /\ PushLoop(k)
        /\ ~PushSkips(k)
        /\ ~dry_run
        /\ NodeAt(fs, local_files[k].path) # {}
        /\ actions' = Append(actions, Action("transfer", k))
        /\ calls' = calls \o <<Call("read", local_files[k].path, TRUE),
                               Call("put", PutPath(k), FALSE)>>
        /\ UNCHANGED <<mode, dry_run, delete, exclude, remote, store, fs, pc,
                       paths, objects, remote_files, local_files, swept,
                       output, result, run, start, prev, input, returned>>

\* main.rs:158-159, put_object fails.
PushPutFail ==
    \E k \in DOMAIN local_files :
        /\ PushLoop(k)
        /\ ~PushSkips(k)
        /\ ~dry_run
        /\ NodeAt(fs, local_files[k].path) # {}
        /\ actions' = Append(actions, Action("transfer", k))
        /\ calls' = calls \o <<Call("read", local_files[k].path, TRUE),
                               Call("put", PutPath(k), FALSE)>>
        /\ Fail
        /\ UNCHANGED <<mode, dry_run, delete, exclude, remote, store, fs,
                       paths, objects, remote_files, local_files, swept,
                       output, run, start, prev, input, returned>>

\* Mutant: the upload does not look at the dry-run flag.
PushOk_ignoring_dry_run ==
    \E k \in DOMAIN local_files :
        /\ PushLoop(k)
        /\ ~PushSkips(k)
        /\ \E n \in NodeAt(fs, local_files[k].path) :
              store' = PutObject(store, PutPath(k), n.data)
        /\ actions' = Append(actions, Action("transfer", k))
        /\ calls' = calls \o <<Call("read", local_files[k].path, TRUE),
                               Call("put", PutPath(k), TRUE)>>
        /\ output' = Append(output, Line("Updated", k))
        /\ UNCHANGED <<mode, dry_run, delete, exclude, remote, fs, pc, paths,
                       objects, remote_files, local_files, swept, result, run,
                       start, prev, input, returned>>

\* main.rs:158-160: the file is read and sent to the path `remote`.
PushOk ==
    \E k \in DOMAIN local_files :
        /\ PushLoop(k)
        /\ ~PushSkips(k)
        /\ ~dry_run
        /\ \E n \in NodeAt(fs, local_files[k].path) :
              store' = PutObject(store, PutPath(k), n.data)
        /\ actions' = Append(actions, Action("transfer", k))
        /\ calls' = calls \o <<Call("read", local_files[k].path, TRUE),
                               Call("put", PutPath(k), TRUE)>>
        /\ output' = Append(output, Line("Updated", k))
        /\ UNCHANGED <<mode, dry_run, delete, exclude, remote, fs, pc, paths,
                       objects, remote_files, local_files, swept, result, run,
                       start, prev, input, returned>>

\* -------------------------------------- main.rs sync_to_local, lines 197-233
PullSkips(k) ==
    /\ k \in DOMAIN local_files
    /\ Unchanged(local_files[k], remote_files[k])

PullLoop(k) ==
    /\ pc = "transfer"
    /\ mode = "pull"
    /\ k \in DOMAIN remote_files \ visited
    /\ visited' = visited \cup {k}

local_path(k) == get_path(LocalRoot, zone_name(remote), k)
\* main.rs:212: path + "/" + object_name.
remote_path(k) == Append(remote_files[k].path, remote_files[k].object_name)
\* main.rs:217-218: the parent directory is missing.
NeedsDir(k) == NodeAt(fs, Front(local_path(k))) = {}
\* A file can be written where no directory is, inside a directory.
Writable(filesystem, path) ==
    /\ \A n \in NodeAt(filesystem, path) : ~n.is_directory
    /\ \E n \in NodeAt(filesystem, Front(path)) : n.is_directory

\* main.rs:199-204: continue.
PullSkip ==
    \E k \in DOMAIN remote_files :
        /\ PullLoop(k)
        /\ PullSkips(k)
        /\ UNCHANGED <<mode, dry_run, delete, exclude, remote, store, fs, pc,
                       paths, objects, remote_files, local_files, swept,
                       calls, actions, output, result, run, start, prev,
                       input, returned>>

\* main.rs:227-231.
PullDry ==
    \E k \in DOMAIN remote_files :
        /\ PullLoop(k)
        /\ ~PullSkips(k)
        /\ dry_run
        /\ actions' = Append(actions, Action("transfer", k))
        /\ output' = Append(output, Line("Would update", k))
        /\ UNCHANGED <<mode, dry_run, delete, exclude, remote, store, fs, pc,
                       paths, objects, remote_files, local_files, swept,
                       calls, result, run, start, prev, input, returned>>

\* main.rs:213, get_object fails.
PullGetFail ==
    \E k \in DOMAIN remote_files :
        /\ PullLoop(k)
        /\ ~PullSkips(k)
        /\ ~dry_run
        /\ actions' = Append(actions, Action("transfer", k))
        /\ calls' = Append(calls, Call("get", remote_path(k), FALSE))
        /\ Fail
        /\ UNCHANGED <<mode, dry_run, delete, exclude, remote, store, fs,
                       paths, objects, remote_files, local_files, swept,
                       output, run, start, prev, input, returned>>

\* main.rs:219, create_dir_all fails.
PullMkdirFail ==
    \E k \in DOMAIN remote_files :
        /\ PullLoop(k)
        /\ ~PullSkips(k)
        /\ ~dry_run
        /\ ObjectAt(store, remote_path(k)) # {}
        /\ NeedsDir(k)
        /\ actions' = Append(actions, Action("transfer", k))
        /\ calls' = calls \o <<Call("get", remote_path(k), TRUE),
                               Call("mkdir", Front(local_path(k)), FALSE)>>
        /\ Fail
        /\ UNCHANGED <<mode, dry_run, delete, exclude, remote, store, fs,
                       paths, objects, remote_files, local_files, swept,
                       output, run, start, prev, input, returned>>

\* The calls of lines 213-219 when all of them succeed.
PullCallsBeforeWrite(k) ==
    <<Call("get", remote_path(k), TRUE)>> \o
    (IF NeedsDir(k) THEN <<Call("mkdir", Front(local_path(k)), TRUE)>>
     ELSE <<>>)
FsBeforeWrite(k) ==
    IF NeedsDir(k) THEN CreateDirAll(fs, Front(local_path(k))) ELSE fs

\* main.rs:224, std::fs::write fails; a directory created at line 219 stays.
PullWriteFail ==
    \E k \in DOMAIN remote_files :
        /\ PullLoop(k)
        /\ ~PullSkips(k)
        /\ ~dry_run
        /\ ObjectAt(store, remote_path(k)) # {}
        /\ fs' = FsBeforeWrite(k)
        /\ actions' = Append(actions, Action("transfer", k))
        /\ calls' = calls \o PullCallsBeforeWrite(k) \o
                    <<Call("write", local_path(k), FALSE)>>
        /\ Fail
        /\ UNCHANGED <<mode, dry_run, delete, exclude, remote, store, paths,
                       objects, remote_files, local_files, swept, output, run,
                       start, prev, input, returned>>

\* main.rs:212-225: the object is downloaded and written to local_path.
PullOk ==
    \E k \in DOMAIN remote_files :
        /\ PullLoop(k)
        /\ ~PullSkips(k)
        /\ ~dry_run
        /\ Writable(FsBeforeWrite(k), local_path(k))
        /\ \E o \in ObjectAt(store, remote_path(k)) :
              fs' = WriteFile(FsBeforeWrite(k), local_path(k), o.data)
        /\ actions' = Append(actions, Action("transfer", k))
        /\ calls' = calls \o PullCallsBeforeWrite(k) \o
                    <<Call("write", local_path(k), TRUE)>>
        /\ output' = Append(output, Line("Updated", k))
        /\ UNCHANGED <<mode, dry_run, delete, exclude, remote, store, pc,
                       paths, objects, remote_files, local_files, swept,
                       result, run, start, prev, input, returned>>

\* Mutant: the delete loop may begin before the update loop has ended.
TransferDone_early ==
    /\ pc = "transfer"
    /\ pc' = (IF delete THEN "delete" ELSE "done")
    /\ result' = (IF delete THEN result ELSE "ok")
    /\ UNCHANGED <<mode, dry_run, delete, exclude, remote, store, fs, paths,
                   objects, remote_files, local_files, visited, swept, calls,
                   actions, output, run, start, prev, input, returned>>

\* main.rs:164-167 and 233-235: the first loop is over.
TransferDone ==
    /\ pc = "transfer"
    /\ visited = (IF mode = "push" THEN DOMAIN local_files
                  ELSE DOMAIN remote_files)
    /\ pc' = (IF delete THEN "delete" ELSE "done")
    /\ result' = (IF delete THEN result ELSE "ok")
    /\ UNCHANGED <<mode, dry_run, delete, exclude, remote, store, fs, paths,
                   objects, remote_files, local_files, visited, swept, calls,
                   actions, output, run, start, prev, input, returned>>

\* ------------------------------------- main.rs sync_to_remote, lines 167-178
PushDelLoop(k) ==
    /\ pc = "delete"
    /\ mode = "push"
    /\ k \in DOMAIN remote_files \ swept
    /\ swept' = swept \cup {k}

\* main.rs:169: the key is present locally.
PushDelKeep ==
    \E k \in DOMAIN remote_files :
        /\ PushDelLoop(k)
        /\ k \in DOMAIN local_files
        /\ UNCHANGED <<mode, dry_run, delete, exclude, remote, store, fs, pc,
                       paths, objects, remote_files, local_files, visited,
                       calls, actions, output, result, run, start, prev,
                       input, returned>>

\* main.rs:174.
PushDelDry ==
    \E k \in DOMAIN remote_files :
        /\ PushDelLoop(k)
        /\ k \notin DOMAIN local_files
        /\ dry_run
        /\ actions' = Append(actions, Action("delete", k))
        /\ output' = Append(output, Line("Would delete", k))
        /\ UNCHANGED <<mode, dry_run, delete, exclude, remote, store, fs, pc,
                       paths, objects, remote_files, local_files, visited,
                       calls, result, run, start, prev, input, returned>>

\* main.rs:171, delete_object fails.
PushDelFail ==
    \E k \in DOMAIN remote_files :
        /\ PushDelLoop(k)
        /\ k \notin DOMAIN local_files
        /\ ~dry_run
        /\ actions' = Append(actions, Action("delete", k))
        /\ calls' = Append(calls, Call("delete", k, FALSE))
        /\ Fail
        /\ UNCHANGED <<mode, dry_run, delete, exclude, remote, store, fs,
                       paths, objects, remote_files, local_files, visited,
                       output, run, start, prev, input, returned>>

\* Mutant: the delete does not look at the local map.
PushDelOk_any_key ==
    \E k \in DOMAIN remote_files :
        /\ PushDelLoop(k)
        /\ ~dry_run
        /\ ObjectAt(store, k) # {}
        /\ store' = DeleteObject(store, k)
        /\ actions' = Append(actions, Action("delete", k))
        /\ calls' = Append(calls, Call("delete", k, TRUE))
        /\ output' = Append(output, Line("Deleted", k))
        /\ UNCHANGED <<mode, dry_run, delete, exclude, remote, fs, pc, paths,
                       objects, remote_files, local_files, visited, result,
                       run, start, prev, input, returned>>

\* main.rs:171-172: the object at the key is deleted.
PushDelOk ==
    \E k \in DOMAIN remote_files :
        /\ PushDelLoop(k)
        /\ k \notin DOMAIN local_files
        /\ ~dry_run
        /\ ObjectAt(store, k) # {}
        /\ store' = DeleteObject(store, k)
        /\ actions' = Append(actions, Action("delete", k))
        /\ calls' = Append(calls, Call("delete", k, TRUE))
        /\ output' = Append(output, Line("Deleted", k))
        /\ UNCHANGED <<mode, dry_run, delete, exclude, remote, fs, pc, paths,
                       objects, remote_files, local_files, visited, result,
                       run, start, prev, input, returned>>

\* -------------------------------------- main.rs sync_to_local, lines 235-246
PullDelLoop(k) ==
    /\ pc = "delete"
    /\ mode = "pull"
    /\ k \in DOMAIN local_files \ swept
    /\ swept' = swept \cup {k}

\* main.rs:237: the key is present remotely.
PullDelKeep ==
    \E k \in DOMAIN local_files :
        /\ PullDelLoop(k)
        /\ k \in DOMAIN remote_files
        /\ UNCHANGED <<mode, dry_run, delete, exclude, remote, store, fs, pc,
                       paths, objects, remote_files, local_files, visited,
                       calls, actions, output, result, run, start, prev,
                       input, returned>>

\* main.rs:242.
PullDelDry ==
    \E k \in DOMAIN local_files :
        /\ PullDelLoop(k)
        /\ k \notin DOMAIN remote_files
        /\ dry_run
        /\ actions' = Append(actions, Action("delete", k))
        /\ output' = Append(output, Line("Would delete", k))
        /\ UNCHANGED <<mode, dry_run, delete, exclude, remote, store, fs, pc,
                       paths, objects, remote_files, local_files, visited,
                       calls, result, run, start, prev, input, returned>>

\* main.rs:239, remove_file fails (it does when no file has that path).
PullDelFail ==
    \E k \in DOMAIN local_files :
        /\ PullDelLoop(k)
        /\ k \notin DOMAIN remote_files
        /\ ~dry_run
        /\ actions' = Append(actions, Action("delete", k))
        /\ calls' = Append(calls, Call("remove", k, FALSE))
        /\ Fail
        /\ UNCHANGED <<mode, dry_run, delete, exclude, remote, store, fs,
                       paths, objects, remote_files, local_files, visited,
                       output, run, start, prev, input, returned>>

\* main.rs:239-240: remove_file(&path), where path is the map's key: the
\* file whose filesystem path is the text of the SyncKey is removed.
PullDelOk ==
    \E k \in DOMAIN local_files :
        /\ PullDelLoop(k)
        /\ k \notin DOMAIN remote_files
        /\ ~dry_run
        /\ \E n \in NodeAt(fs, k) : ~n.is_directory
        /\ fs' = RemoveFile(fs, k)
        /\ actions' = Append(actions, Action("delete", k))
        /\ calls' = Append(calls, Call("remove", k, TRUE))
        /\ output' = Append(output, Line("Deleted", k))
        /\ UNCHANGED <<mode, dry_run, delete, exclude, remote, store, pc,
                       paths, objects, remote_files, local_files, visited,
                       result, run, start, prev, input, returned>>

\* main.rs:179 and 247: Ok(()).
DeleteDone ==
    /\ pc = "delete"
    /\ swept = (IF mode = "push" THEN DOMAIN remote_files
                  ELSE DOMAIN local_files)
    /\ pc' = "done"
    /\ result' = "ok"
    /\ UNCHANGED <<mode, dry_run, delete, exclude, remote, store, fs, paths,
                   objects, remote_files, local_files, visited, swept, calls,
                   actions, output, run, start, prev, input, returned>>

\* main.rs:52-103 run again after "Sync complete": the same source,
\* destination, delete flag and exclusions, this time without --dryrun,
\* against the trees the previous invocation left.
Rerun ==
    /\ pc = "done"
    /\ result = "ok"
    /\ run < MaxRuns
    /\ run' = run + 1
    /\ prev' = [dry_run |-> dry_run, actions |-> actions, output |-> output]
    /\ dry_run' = FALSE
    /\ start' = [store |-> store, fs |-> fs]
    /\ pc' = "listing"
    /\ paths' = <<remote>>
    /\ objects' = EmptyBag
    /\ remote_files' = EmptyMap
    /\ local_files' = EmptyMap
    /\ visited' = {}
    /\ swept' = {}
    /\ calls' = <<>>
    /\ actions' = <<>>
    /\ output' = <<>>
    /\ result' = "none"
    /\ UNCHANGED <<mode, delete, exclude, remote, store, fs, input, returned>>

Next ==
    \/ ListOk \/ ListFail \/ ListReturn
    \/ WalkOk \/ WalkFail
    \/ PushSkip \/ PushDry \/ PushReadFail \/ PushPutFail \/ PushOk
    \/ PullSkip \/ PullDry \/ PullGetFail \/ PullMkdirFail
    \/ PullWriteFail \/ PullOk
    \/ TransferDone
    \/ PushDelKeep \/ PushDelDry \/ PushDelFail \/ PushDelOk
    \/ PullDelKeep \/ PullDelDry \/ PullDelFail \/ PullDelOk
    \/ DeleteDone
    \/ Rerun

Spec == Init /\ [][Next]_vars

\* ==================================================== properties
ActionsOf(kind, k) ==
    Cardinality({i \in DOMAIN actions : actions[i] = Action(kind, k)})
TransfersOf(k) == ActionsOf("transfer", k)
DeletesOf(k) == ActionsOf("delete", k)
CallsOf(op, path) ==
    Cardinality({i \in DOMAIN calls :
                    calls[i].op = op /\ calls[i].path = path})
Keys(text, lines) ==
    {lines[i].key : i \in {j \in DOMAIN lines : lines[j].text = text}}

\* C1 - push skip rule.  In push mode a local file of localMap that the
\* update loop has reached gets no Transfer if remoteMap has its key, its
\* timestamp is not later than the remote one and the lengths are equal,
\* and exactly one Transfer otherwise; a file the loop has not reached has
\* none, and a run that returns Ok has reached every file.  In a live run
\* the Transfer is one read of the file.
C1_PushSkipRule ==
    mode = "push" =>
        /\ result = "ok" => visited = DOMAIN local_files
        /\ \A k \in DOMAIN local_files :
              LET equivalent ==
                    /\ k \in DOMAIN remote_files
                    /\ local_files[k].last_changed
                          <= remote_files[k].last_changed
                    /\ local_files[k].length = remote_files[k].length
              IN /\ TransfersOf(k) =
                       (IF k \in visited /\ ~equivalent THEN 1 ELSE 0)
                 /\ ~dry_run =>
                       CallsOf("read", local_files[k].path) = TransfersOf(k)

\* A live push run that returned Ok, transferred one file and skipped
\* another whose remote copy is newer, as long, and has other bytes.
C1_Witness ==
    /\ mode = "push" /\ ~dry_run /\ result = "ok"
    /\ \E k \in DOMAIN local_files : TransfersOf(k) = 1
    /\ \E k \in DOMAIN local_files \cap DOMAIN remote_files :
          /\ TransfersOf(k) = 0
          /\ local_files[k].last_changed < remote_files[k].last_changed
          /\ \E n \in NodeAt(fs, local_files[k].path) :
                remote_files[k].data # n.data

\* C2 - comparison semantics in both directions: an entry present on both
\* sides that the update loop has reached gets no Transfer iff the
\* destination is not older than the source and the lengths are equal.
C2_InSyncBothDirections ==
    \A k \in (DOMAIN local_files \cap DOMAIN remote_files) \cap visited :
        LET source == IF mode = "push" THEN local_files[k]
                      ELSE remote_files[k]
            destination == IF mode = "push" THEN remote_files[k]
                           ELSE local_files[k]
        IN TransfersOf(k) = 0 <=>
              /\ destination.last_changed >= source.last_changed
              /\ source.length = destination.length

\* C3 - dry-run safety: a run with the dry-run flag issues no mutating call
\* and the remote namespace and the local filesystem stay what they were
\* when it started.
C3_DryRunSafety ==
    dry_run =>
        /\ \A i \in DOMAIN calls : calls[i].op \notin MutatingOps
        /\ store = start.store
        /\ fs = start.fs

\* A dry run that returned Ok after reporting a transfer and a delete.
C3_Witness ==
    /\ dry_run /\ result = "ok"
    /\ \E i \in DOMAIN output : output[i].text = "Would update"
    /\ \E i \in DOMAIN output : output[i].text = "Would delete"

\* C4 - delete flag.  A live push run with the delete flag that returned Ok
\* has called deleteObject exactly once on every key of remoteMap that is
\* not in localMap, on no other path, and those objects are gone.  Without
\* the flag no run, push or pull, issues a remote delete or a local
\* removal, and what exists on the destination only is left as it was.
C4_DeleteFlag ==
    /\ (mode = "push" /\ ~dry_run /\ delete /\ result = "ok") =>
          /\ {calls[i].path : i \in {j \in DOMAIN calls :
                                        calls[j].op = "delete"}}
                = DOMAIN remote_files \ DOMAIN local_files
          /\ \A k \in DOMAIN remote_files \ DOMAIN local_files :
                /\ CallsOf("delete", k) = 1
                /\ ObjectAt(store, k) = {}
    /\ ~delete =>
          /\ \A i \in DOMAIN calls : calls[i].op \notin {"delete", "remove"}
          /\ \A i \in DOMAIN actions : actions[i].kind # "delete"
          /\ mode = "push" =>
                \A k \in DOMAIN remote_files \ DOMAIN local_files :
                    ObjectAt(store, k) = {remote_files[k]}
          /\ mode = "pull" =>
                \A k \in DOMAIN local_files \ DOMAIN remote_files :
                    NodeAt(fs, local_files[k].path)
                        = NodeAt(start.fs, local_files[k].path)

\* A live push run with the delete flag that returned Ok, deleted an object
\* and kept another one.
C4_Witness ==
    /\ mode = "push" /\ ~dry_run /\ delete /\ result = "ok"
    /\ \E i \in DOMAIN calls : calls[i].op = "delete" /\ calls[i].ok
    /\ DOMAIN remote_files \cap DOMAIN local_files # {}

\* C5 - pull-mode delete: in a live pull run with the delete flag, a file
\* that has been removed is the local file of a key of localMap that is not
\* in remoteMap, and a run that returned Ok has removed each of them.
C5_PullDeleteRemovesLocalFile ==
    (mode = "pull" /\ ~dry_run /\ delete) =>
        /\ \A n \in start.fs :
              NodeAt(fs, n.path) = {} =>
                  \E k \in DOMAIN local_files \ DOMAIN remote_files :
                      local_files[k].path = n.path
        /\ result = "ok" =>
              \A k \in DOMAIN local_files \ DOMAIN remote_files :
                  NodeAt(fs, local_files[k].path) = {}

TransferDeleteOps ==
    {"read", "put", "get", "mkdir", "write", "delete", "remove"}

\* C6 - first error wins: a failed transfer or delete call is the last call
\* of its run, which has returned the error; the step that fails undoes
\* nothing of what the run has applied, and after the error the run neither
\* calls nor changes anything.
C6_FirstErrorWins ==
    /\ [](\A i \in DOMAIN calls :
            (calls[i].op \in TransferDeleteOps /\ ~calls[i].ok) =>
                (i = Len(calls) /\ pc = "done" /\ result = "err"))
    /\ [][result' = "err" => (store' = store /\ fs \subseteq fs')]_vars
    /\ [][result = "err" => UNCHANGED <<calls, actions, store, fs>>]_vars

\* A live run stopped by a failed call after an earlier action had changed
\* the destination.
C6_Witness ==
    /\ ~dry_run /\ result = "err"
    /\ calls # <<>>
    /\ Last(calls).op \in TransferDeleteOps /\ ~Last(calls).ok
    /\ \E i \in DOMAIN calls : calls[i].op \in MutatingOps /\ calls[i].ok
    /\ (store # start.store \/ fs # start.fs)

\* The entries of a store that lie below a path.
Below(objs, path) == {o \in objs : IsPrefix(path, o.path)}
BuiltMaps ==
    \E i \in DOMAIN calls : calls[i] = Call("walk", LocalRoot, TRUE)

\* C7 - snapshot before mutation: every mutating call comes after a
\* successful local enumeration, which comes after the remote one, no
\* enumeration call before it having failed; a failed enumeration call ends
\* the run with an error and both sides unchanged; and from then on the two
\* maps are those of the trees the run started from, whatever the run has
\* changed since, and every decision is one those maps give.
C7_SnapshotBeforeMutation ==
    /\ \A i \in DOMAIN calls :
          calls[i].op \in MutatingOps =>
              /\ \E w \in 1..(i - 1) :
                    /\ calls[w] = Call("walk", LocalRoot, TRUE)
                    /\ \E l \in 1..(w - 1) :
                          calls[l].op = "list" /\ calls[l].ok
              /\ \A j \in 1..(i - 1) :
                    calls[j].op \in {"list", "walk"} => calls[j].ok
    /\ (\E i \in DOMAIN calls :
            calls[i].op \in {"list", "walk"} /\ ~calls[i].ok) =>
          /\ pc = "done" /\ result = "err"
          /\ store = start.store /\ fs = start.fs
    /\ BuiltMaps =>
          /\ remote_files
                = RemoteFileMap(Below(start.store, remote), exclude)
          /\ local_files
                = LocalFileMap(get_files(start.fs, LocalRoot),
                               zone_name(remote), exclude)
    /\ \A i \in DOMAIN actions :
          LET k == actions[i].key
              source == IF mode = "push" THEN local_files ELSE remote_files
              destination ==
                  IF mode = "push" THEN remote_files ELSE local_files
          IN IF actions[i].kind = "transfer"
             THEN /\ k \in DOMAIN source
                  /\ ~(/\ k \in DOMAIN destination
                       /\ local_files[k].last_changed
                             <= remote_files[k].last_changed
                       /\ local_files[k].length = remote_files[k].length)
             ELSE k \in DOMAIN destination \ DOMAIN source

\* A run still in its loops whose earlier calls have changed a side.
C7_Witness ==
    /\ pc \in {"transfer", "delete"}
    /\ \E i \in DOMAIN calls : calls[i].op \in MutatingOps /\ calls[i].ok
    /\ (store # start.store \/ fs # start.fs)
    /\ DOMAIN remote_files # {} /\ DOMAIN local_files # {}

\* C8 - push idempotence: a push run that follows a live push run which
\* returned Ok, with the local tree unchanged, issues no Transfer.
C8_PushIdempotence ==
    (mode = "push" /\ run > 1 /\ ~prev.dry_run) =>
        \A i \in DOMAIN actions : actions[i].kind # "transfer"

\* C9 - dry-run decision equivalence: when a dry run is followed, from the
\* trees it started from and with the same direction, delete flag and
\* exclusions, by a live run that returns Ok, the keys the dry run reported
\* as "Would update" and "Would delete" are the keys the live run has
\* transferred and deleted.
C9_DryRunDecisionEquivalence ==
    (run > 1 /\ prev.dry_run /\ result = "ok") =>
        /\ Keys("Would update", prev.output) = Keys("Updated", output)
        /\ Keys("Would delete", prev.output) = Keys("Deleted", output)
        /\ Keys("Updated", output)
              = {actions[i].key : i \in {j \in DOMAIN actions :
                                            actions[j].kind = "transfer"}}

\* A live run that returned Ok after a dry run, with a transfer and a
\* delete.
C9_Witness ==
    /\ run > 1 /\ prev.dry_run /\ result = "ok"
    /\ Keys("Updated", output) # {}
    /\ Keys("Deleted", output) # {}

\* ----------------------------------- the remote enumeration on its own
\* Remote trees of at most MaxEntries entries: a file a in the zone root
\* and in every pseudo-directory, pseudo-directories d and e nested twice.
MaxEntries == 5
EnumDirPaths == {<<"z">>, <<"z", "d">>, <<"z", "e">>}
EnumDirs == {DirObject(c, n) : c \in EnumDirPaths, n \in {"d", "e"}}
EnumFiles ==
    {StorageObject(c, "a", 1, <<1>>, FALSE) :
        c \in EnumDirPaths \cup {ObjectKey(o) : o \in EnumDirs}}
IsTree(objs) ==
    \A o \in objs :
        \/ o.path = <<Zone>>
        \/ \E q \in objs : q.is_directory /\ ObjectKey(q) = o.path
EnumTrees ==
    {t \in SUBSET (EnumDirs \cup EnumFiles) :
        Cardinality(t) <= MaxEntries /\ IsTree(t)}
EnumRoots == {<<"z">>, <<"z", "d">>, <<"z", "d", "e">>}

InitEnum ==
    /\ mode = "push"
    /\ dry_run = FALSE
    /\ delete = FALSE
    /\ exclude = <<>>
    /\ remote \in EnumRoots
    /\ store \in EnumTrees
    /\ fs = {DirNode(LocalRoot)}
    /\ RunInit
    /\ run = 1
    /\ start = [store |-> store, fs |-> fs]
    /\ prev = NoPrev
    /\ input = <<>>
    /\ returned = <<>>

NextEnum == ListOk \/ ListFail \/ ListReturn

SpecEnum == InitEnum /\ [][NextEnum]_vars

\* get_all_objects has returned Ok(objects).
ListedOk ==
    /\ pc # "listing"
    /\ \E i \in DOMAIN calls : calls[i].op = "list"
    /\ \A i \in DOMAIN calls : calls[i].op = "list" => calls[i].ok

\* C10 - remote enumeration completeness: when every listing call has
\* succeeded, the entries get_all_objects returns are the files and
\* pseudo-directories that the tree the run started from has below the
\* root path, each of them once.
C10_EnumerationComplete ==
    ListedOk =>
        /\ BagToSet(objects) = Below(start.store, remote)
        /\ \A o \in BagToSet(objects) : CopiesIn(o, objects) = 1

\* A listing from a root below the zone root that returned two levels of
\* entries and left entries outside the root unlisted.
C10_Witness ==
    /\ ListedOk
    /\ remote # <<Zone>>
    /\ \E o \in BagToSet(objects) : Len(o.path) > Len(remote)
    /\ \E o \in BagToSet(objects) : ~o.is_directory
    /\ store \ Below(store, remote) # {}

\* C11 - remote enumeration failure: a listing call that fails is the last
\* call of get_all_objects, which returns the error: the run is over with
\* an error, nothing that earlier listings returned is kept and no map is
\* built from it.
C11_EnumerationFailure ==
    \A i \in DOMAIN calls :
        (calls[i].op = "list" /\ ~calls[i].ok) =>
            /\ i = Len(calls)
            /\ pc = "done" /\ result = "err"
            /\ objects = EmptyBag
            /\ remote_files = EmptyMap

\* A listing that failed after an earlier listing had returned entries.
C11_Witness ==
    /\ Len(calls) >= 2
    /\ Last(calls).op = "list" /\ ~Last(calls).ok
    /\ calls[1].ok
    /\ get_objects(store, calls[1].path) # {}

\* C17 - push transfer target: in a live push run every Transfer that gets
\* to put_object (its file was read) calls it once with the root path the
\* run was given, the same path for every file, which is the path of no
\* file's key.
C17_PushTransferTarget ==
    (mode = "push" /\ ~dry_run) =>
        /\ \A i \in DOMAIN calls :
              calls[i].op = "put" =>
                  /\ calls[i].path = remote
                  /\ calls[i].path \notin DOMAIN local_files
        /\ Cardinality({i \in DOMAIN calls : calls[i].op = "put"})
              = Len(actions)
                  - Cardinality({i \in DOMAIN actions :
                                    actions[i].kind = "delete"})
                  - Cardinality({i \in DOMAIN calls :
                                    calls[i].op = "read" /\ ~calls[i].ok})

\* A live push run that uploaded two different files, both to the root path.
C17_Witness ==
    /\ mode = "push" /\ ~dry_run /\ result = "ok"
    /\ \E k1, k2 \in DOMAIN local_files :
          /\ k1 # k2
          /\ TransfersOf(k1) = 1 /\ TransfersOf(k2) = 1
    /\ CallsOf("put", remote) = 2

\* C19 - key alignment: for every remote root, the zone root or a
\* sub-directory of it, the key of a local file is the root path followed
\* by the file's path relative to the local root, so that a local file and
\* a remote object have the same key exactly when their paths relative to
\* the two roots are the same.
C19_KeyAlignment ==
    BuiltMaps =>
        /\ \A k \in DOMAIN local_files :
              k = remote \o local_files[k].relative_path
        /\ \A kl \in DOMAIN local_files, kr \in DOMAIN remote_files :
              (kl = kr) <=> (local_files[kl].relative_path
                               = SubSeq(kr, Len(remote) + 1, Len(kr)))

\* C20 - pull idempotence: a pull run that follows a live pull run which
\* returned Ok, the remote tree unchanged and the local tree as the first
\* run left it, every written file carrying the time of its write, issues
\* no Transfer.
C20_PullIdempotence ==
    (mode = "pull" /\ run > 1 /\ ~prev.dry_run) =>
        \A i \in DOMAIN actions : actions[i].kind # "transfer"

\* storage.rs:93-104: the loop of get_all_objects runs without waiting for
\* anything but the answer of the call it has made, so an iteration or the
\* return that is possible is eventually taken.
SpecEnumFair == SpecEnum /\ WF_vars(NextEnum)

\* The pseudo-directory entries the listings have returned, with copies.
DirEntries ==
    LET dirs == {o \in BagToSet(objects) : o.is_directory}
    IN [o \in dirs |-> CopiesIn(o, objects)]

\* C18 - remote enumeration worklist: on every finite tree get_all_objects
\* ends; when it returns the entries, no path is pending, it has called
\* get_objects once for the root and once for every pseudo-directory entry
\* returned (1 + their number in all), the path listed for an entry being
\* its container path followed by its name, and no path was listed twice.
C18_Worklist ==
    /\ <>(pc # "listing")
    /\ [](ListedOk =>
            /\ paths = <<>>
            /\ Len(calls) = 1 + BagCardinality(DirEntries)
            /\ calls[1].path = remote
            /\ {calls[i].path : i \in 2..Len(calls)}
                  = {Append(o.path, o.object_name) : o \in DOMAIN DirEntries}
            /\ \A i, j \in DOMAIN calls :
                  calls[i].path = calls[j].path => i = j)

\* An enumeration that returned after three listings: the root, a
\* pseudo-directory and one nested in it.
C18_Witness ==
    /\ ListedOk
    /\ Len(calls) = 3
    /\ \E o \in DOMAIN DirEntries : Len(o.path) > Len(remote)

\* What the exclusion option promises: some pattern, read as a glob with *
\* as wildcard, matches the name.
GlobExcluded(name, patterns) ==
    \E i \in DOMAIN patterns : glob_match(Chars(patterns[i]), Chars(name))

\* C13 - exclusion and directory filtering: neither map contains a
\* directory entry or an entry whose leaf name a pattern matches, and no
\* Transfer and no Delete is issued for a directory or for such an entry.
C13_ExclusionFiltering ==
    /\ \A k \in DOMAIN remote_files :
          /\ ~remote_files[k].is_directory
          /\ ~GlobExcluded(remote_files[k].object_name, exclude)
    /\ \A k \in DOMAIN local_files :
          /\ ~local_files[k].is_directory
          /\ ~GlobExcluded(Last(local_files[k].path), exclude)
    /\ \A i \in DOMAIN actions :
          /\ actions[i].key \in DOMAIN remote_files \cup DOMAIN local_files
          /\ ~GlobExcluded(Last(actions[i].key), exclude)

\* -------------------------------------------- is_excluded as a function
MaxPatterns == 2

\* File names and patterns: the strings of one or two characters over a, b
\* and the wildcard.
GlobStrings ==
    {"a", "b", "*", "aa", "ab", "a*", "ba", "bb", "b*", "*a", "*b", "**"}
PatternLists == UNION {[1..n -> GlobStrings] : n \in 0..MaxPatterns}

\* No sync run: the state around a single function that is called.
NoRun ==
    /\ mode = "push"
    /\ dry_run = FALSE
    /\ delete = FALSE
    /\ exclude = <<>>
    /\ remote = <<Zone>>
    /\ store = {}
    /\ fs = {DirNode(LocalRoot)}
    /\ pc = "call"
    /\ paths = <<>>
    /\ objects = EmptyBag
    /\ remote_files = EmptyMap
    /\ local_files = EmptyMap
    /\ visited = {}
    /\ swept = {}
    /\ calls = <<>>
    /\ actions = <<>>
    /\ output = <<>>
    /\ result = "none"
    /\ run = 1
    /\ start = [store |-> store, fs |-> fs]
    /\ prev = NoPrev

InitGlob ==
    /\ NoRun
    /\ input \in [file_name : GlobStrings, exclude_patterns : PatternLists]
    /\ returned = <<>>

\* main.rs:308-312.
CallIsExcluded ==
    /\ pc = "call"
    /\ returned' = <<is_excluded(input.file_name, input.exclude_patterns)>>
    /\ pc' = "returned"
    /\ UNCHANGED <<mode, dry_run, delete, exclude, remote, store, fs, paths,
                   objects, remote_files, local_files, visited, swept, calls,
                   actions, output, result, run, start, prev, input>>

NextGlob == CallIsExcluded

SpecGlob == InitGlob /\ [][NextGlob]_vars

\* C12 - exclusion matcher: is_excluded(name, patterns) is true iff at
\* least one pattern, read as a glob with * as wildcard, matches the name;
\* with an empty pattern list it is false.
C12_ExclusionMatcher ==
    returned # <<>> =>
        /\ returned[1] = GlobExcluded(input.file_name, input.exclude_patterns)
        /\ (input.exclude_patterns = <<>> => returned[1] = FALSE)

\* ------------------------------------------------- get_path as a function
\* Paths are strings, written as sequences of characters; a PathBuf is
\* compared by its components.
MaxPathLen == 6

PathAlphabet == {"/", "z", "x"}
PathStrings == UNION {[1..n -> PathAlphabet] : n \in 0..MaxPathLen}
LocalBases == {<<"/", "w">>, <<"/", "w", "/">>, <<"w">>, <<"w", "/">>}
ZoneNames == {<<"z">>, <<"z", "x">>}
\* The working directory, which canonicalize puts before a relative path.
CurrentDir == <<"/", "c">>

\* The segments of a string between separators, empty ones dropped.
RECURSIVE SplitPath(_, _, _)
SplitPath(s, segment, done) ==
    IF s = <<>>
    THEN IF segment = <<>> THEN done ELSE Append(done, segment)
    ELSE IF Head(s) = "/"
         THEN SplitPath(Tail(s), <<>>,
                        IF segment = <<>> THEN done
                        ELSE Append(done, segment))
         ELSE SplitPath(Tail(s), Append(segment, Head(s)), done)

RECURSIVE JoinPath(_)
JoinPath(segments) ==
    IF segments = <<>> THEN <<>>
    ELSE IF Len(segments) = 1 THEN segments[1]
         ELSE segments[1] \o <<"/">> \o JoinPath(Tail(segments))

\* std::path::Path::components: a root when the string starts with a
\* separator, then the non-empty segments.
Components(s) ==
    [has_root |-> s # <<>> /\ s[1] = "/", normal |-> SplitPath(s, <<>>, <<>>)]

RECURSIVE TrimLeft(_)
TrimLeft(s) ==
    IF s # <<>> /\ Head(s) = "/" THEN TrimLeft(Tail(s)) ELSE s
RECURSIVE TrimRight(_)
TrimRight(s) ==
    IF s # <<>> /\ Last(s) = "/" THEN TrimRight(Front(s)) ELSE s

\* std::path::Path::strip_prefix: the components of base are taken off the
\* front of path one by one; what is left is the rest of the string between
\* its first and last component.
strip_prefix(path, base) ==
    LET p == Components(path)
        b == Components(base)
        n == Len(b.normal)
        matches == /\ p.has_root = b.has_root
                   /\ Len(p.normal) >= n
                   /\ SubSeq(p.normal, 1, n) = b.normal
        rest == JoinPath(SubSeq(p.normal, 1, n))
    IN IF matches
       THEN [ok |-> TRUE,
             path |-> TrimRight(TrimLeft(
                         SubSeq(TrimLeft(path), Len(rest) + 1,
                                Len(TrimLeft(path)))))]
       ELSE [ok |-> FALSE, path |-> <<>>]

\* Mutant: a separator is put before what is pushed, whatever the base
\* ends with.
push_with_separator(base, path) ==
    IF path # <<>> /\ path[1] = "/" THEN path
    ELSE base \o <<"/">> \o path

\* std::path::PathBuf::push: an absolute path replaces the base; otherwise
\* it is appended, after a separator if the base does not end with one.
push(base, path) ==
    IF path # <<>> /\ path[1] = "/" THEN path
    ELSE IF base = <<>> \/ Last(base) = "/" THEN base \o path
         ELSE base \o <<"/">> \o path

\* std::fs::canonicalize of a path that exists, in a filesystem without
\* symbolic links: absolute, one separator between segments.
canonicalize(path) ==
    LET c == Components(path)
    IN <<"/">> \o JoinPath((IF c.has_root THEN <<>>
                            ELSE Components(CurrentDir).normal) \o c.normal)

\* local.rs:38-53.  exists: whether the joined path names an existing file
\* or directory, which is when canonicalize succeeds.
GetPath(local_base, zone, rpath, exists) ==
    LET zone_prefix == <<"/">> \o zone \o <<"/">>
        stripped == strip_prefix(rpath, zone_prefix)
        relative == IF stripped.ok THEN stripped.path ELSE rpath
        joined == push(local_base, relative)
    IN IF exists THEN canonicalize(joined) ELSE joined

InitPath ==
    /\ NoRun
    /\ input \in [local_base : LocalBases, zone_name : ZoneNames,
                  remote_path : PathStrings, exists : BOOLEAN]
    /\ returned = <<>>

CallGetPath ==
    /\ pc = "call"
    /\ returned' = <<GetPath(input.local_base, input.zone_name,
                             input.remote_path, input.exists)>>
    /\ pc' = "returned"
    /\ UNCHANGED <<mode, dry_run, delete, exclude, remote, store, fs, paths,
                   objects, remote_files, local_files, visited, swept, calls,
                   actions, output, result, run, start, prev, input>>

NextPath == CallGetPath

SpecPath == InitPath /\ [][NextPath]_vars

\* The remote path begins with /z/, or is the zone name alone, or is empty.
HasZonePrefix ==
    \/ IsPrefix(<<"/">> \o input.zone_name \o <<"/">>, input.remote_path)
    \/ input.remote_path = <<"/">> \o input.zone_name
    \/ input.remote_path = <<>>
\* What follows the first /z/.
Remainder ==
    SubSeq(input.remote_path, Len(input.zone_name) + 3,
           Len(input.remote_path))
\* The base followed by the remainder, as components; in canonical form
\* when the path exists.
BaseThenRemainder ==
    LET b == Components(input.local_base)
        segments == b.normal \o Components(Remainder).normal
    IN IF input.exists
       THEN [has_root |-> TRUE,
             normal |-> (IF b.has_root THEN <<>>
                         ELSE Components(CurrentDir).normal) \o segments]
       ELSE [has_root |-> b.has_root, normal |-> segments]

\* C14 - path mapper prefix stripping: for a remote path that begins with
\* /z/ the result is the local base followed by what comes after the first
\* /z/ (in canonical form when it exists), so a second /z/ stays in the
\* result; the separator the base ends with is not doubled; and when
\* nothing is left (the path is empty or the zone name alone) it is the
\* base.
C14_PrefixStripping ==
    (returned # <<>> /\ HasZonePrefix) =>
        /\ Components(returned[1]) = BaseThenRemainder
        /\ \A i \in {Len(input.local_base), Len(input.local_base) + 1} :
              i + 1 <= Len(returned[1]) =>
                  ~(returned[1][i] = "/" /\ returned[1][i + 1] = "/")
        /\ Remainder = <<>> =>
              Components(returned[1]) \in
                  {Components(input.local_base),
                   Components(canonicalize(input.local_base))}

\* /z/z/x under the base /w/ gives /w/z/x.
C14_Witness ==
    /\ returned = << <<"/", "w", "/", "z", "/", "x">> >>
    /\ input.local_base = <<"/", "w", "/">>
    /\ input.zone_name = <<"z">>
    /\ input.remote_path = <<"/", "z", "/", "z", "/", "x">>
    /\ ~input.exists

\* ------------------------------------------- the four storage operations
HttpOps == {"get_objects", "put_object", "get_object", "delete_object"}
StatusCodes == 100..599

Ok(value) == [ok |-> TRUE, error |-> "none", status |-> value]
Err(error, status) == [ok |-> FALSE, error |-> error, status |-> status]

\* ureq call() and send() of the agent built at storage.rs:57-61: the
\* configuration leaves http_status_as_error at its default, so a response
\* with a 4xx or 5xx status is returned as Err(Error::StatusCode(status)).
call(status) ==
    IF status >= 400 THEN Err("StatusCode", status) ELSE Ok(status)

\* storage.rs:66-88, 107-126, 128-143, 145-160: the `?` after call() or
\* send() returns its error; otherwise the status of the response is
\* matched.  readable: the body can be read (and parsed, for a listing).
Request(op, status, readable) ==
    LET response == call(status)
    IN IF ~response.ok THEN response
       ELSE IF response.status = 401 THEN Err("Remote unauthorized", status)
       ELSE IF response.status = 404 THEN Err("Not found", status)
       ELSE IF response.status = 403 THEN Err("Forbidden", status)
       ELSE IF response.status \in 200..299
            THEN IF op \in {"get_objects", "get_object"} /\ ~readable
                 THEN Err("body", status)
                 ELSE Ok(status)
       ELSE Err("Failed", status)

InitHttp ==
    /\ NoRun
    /\ input \in [op : HttpOps, status : StatusCodes, readable : BOOLEAN]
    /\ returned = <<>>

CallRequest ==
    /\ pc = "call"
    /\ returned' = <<Request(input.op, input.status, input.readable)>>
    /\ pc' = "returned"
    /\ UNCHANGED <<mode, dry_run, delete, exclude, remote, store, fs, paths,
                   objects, remote_files, local_files, visited, swept, calls,
                   actions, output, result, run, start, prev, input>>

NextHttp == CallRequest

SpecHttp == InitHttp /\ [][NextHttp]_vars

\* C15 - storage client result taxonomy: each operation whose response
\* body can be read returns success iff the status is 2xx; 401 gives the
\* unauthorized error, 404 the not-found error, 403 the forbidden error,
\* and every other status that is not 2xx a generic error (the one built
\* by the operation or the one of the HTTP library) that carries the
\* status.
C15_ResultTaxonomy ==
    (returned # <<>> /\ input.readable) =>
        /\ returned[1].ok <=> input.status \in 200..299
        /\ input.status = 401 => returned[1].error = "Remote unauthorized"
        /\ input.status = 404 => returned[1].error = "Not found"
        /\ input.status = 403 => returned[1].error = "Forbidden"
        /\ input.status \notin (200..299) \cup {401, 403, 404} =>
              /\ returned[1].error \in {"Failed", "StatusCode"}
              /\ returned[1].status = input.status

\* ------------------------------------------------------ main.rs main
\* A source or destination argument: the marker zone:// and the segments
\* after it, or the segments of a local path.  w exists, q does not.
ZoneMarker == "zone://"
LocalArgs == {LocalRoot, <<"q">>}
ZoneArgs == {<<ZoneMarker>> \o r : r \in Roots}

\* main.rs:251-253.
is_zone(path) == path # <<>> /\ path[1] = ZoneMarker
\* storage.rs:175-177.
strip_zone_prefix(path) == IF is_zone(path) THEN Tail(path) ELSE path
\* std::path::Path::exists.
Exists(path) == NodeAt(fs, path) # {}

InitMain ==
    /\ input \in [source : LocalArgs \cup ZoneArgs,
                  destination : LocalArgs \cup ZoneArgs,
                  api_key : BOOLEAN, region : {"de", "xx"}]
    /\ returned = <<>>
    /\ mode = "none"
    /\ remote = <<>>
    /\ dry_run \in BOOLEAN
    /\ delete \in BOOLEAN
    /\ exclude \in ExcludeLists
    /\ store \in StoreWorlds
    /\ fs \in FsWorlds
    /\ pc = "main"
    /\ paths = <<>>
    /\ objects = EmptyBag
    /\ remote_files = EmptyMap
    /\ local_files = EmptyMap
    /\ visited = {}
    /\ swept = {}
    /\ calls = <<>>
    /\ actions = <<>>
    /\ output = <<>>
    /\ result = "none"
    /\ run = 1
    /\ start = [store |-> store, fs |-> fs]
    /\ prev = NoPrev

\* The process ends with an exit status.
Exit(status) ==
    /\ returned' = <<status>>
    /\ pc' = "exited"

\* main.rs:55, 99-102: no API key.
MainNoKey ==
    /\ pc = "main"
    /\ ~input.api_key
    /\ output' = Append(output, Line("Please provide an API key", <<>>))
    /\ Exit(0)
    /\ UNCHANGED <<mode, dry_run, delete, exclude, remote, store, fs, paths,
                   objects, remote_files, local_files, visited, swept, calls,
                   actions, result, run, start, prev, input>>

\* main.rs:57: base_url gives None for an unknown region and expect panics.
MainPanic ==
    /\ pc = "main"
    /\ input.api_key
    /\ input.region # "de"
    /\ Exit(101)
    /\ UNCHANGED <<mode, dry_run, delete, exclude, remote, store, fs, paths,
                   objects, remote_files, local_files, visited, swept, calls,
                   actions, output, result, run, start, prev, input>>

\* main.rs:59-63 and 76-81: the direction is chosen and the local path is
\* missing.
MainMissingPath ==
    /\ pc = "main"
    /\ input.api_key
    /\ input.region = "de"
    /\ \/ /\ ~is_zone(input.source) /\ is_zone(input.destination)
          /\ ~Exists(input.source)
          /\ output' = Append(output,
                              Line("Source path does not exist", <<>>))
       \/ /\ is_zone(input.source) /\ ~is_zone(input.destination)
          /\ ~Exists(input.destination)
          /\ output' = Append(output,
                              Line("Destination path does not exist", <<>>))
    /\ Exit(0)
    /\ UNCHANGED <<mode, dry_run, delete, exclude, remote, store, fs, paths,
                   objects, remote_files, local_files, visited, swept, calls,
                   actions, result, run, start, prev, input>>

\* main.rs:59-75 and 136: sync_to_remote is called.
MainPush ==
    /\ pc = "main"
    /\ input.api_key
    /\ input.region = "de"
    /\ ~is_zone(input.source) /\ is_zone(input.destination)
    /\ Exists(input.source)
    /\ mode' = "push"
    /\ remote' = strip_zone_prefix(input.destination)
    /\ paths' = <<remote'>>
    /\ pc' = "listing"
    /\ UNCHANGED <<dry_run, delete, exclude, store, fs, objects, remote_files,
                   local_files, visited, swept, calls, actions, output,
                   result, run, start, prev, input, returned>>

\* main.rs:76-93 and 191: sync_to_local is called.
MainPull ==
    /\ pc = "main"
    /\ input.api_key
    /\ input.region = "de"
    /\ is_zone(input.source) /\ ~is_zone(input.destination)
    /\ Exists(input.destination)
    /\ mode' = "pull"
    /\ remote' = strip_zone_prefix(input.source)
    /\ paths' = <<remote'>>
    /\ pc' = "listing"
    /\ UNCHANGED <<dry_run, delete, exclude, store, fs, objects, remote_files,
                   local_files, visited, swept, calls, actions, output,
                   result, run, start, prev, input, returned>>

\* main.rs:94-97.
MainInvalid ==
    /\ pc = "main"
    /\ input.api_key
    /\ input.region = "de"
    /\ is_zone(input.source) = is_zone(input.destination)
    /\ output' = Append(output, Line("Invalid source and destination", <<>>))
    /\ Exit(1)
    /\ UNCHANGED <<mode, dry_run, delete, exclude, remote, store, fs, paths,
                   objects, remote_files, local_files, visited, swept, calls,
                   actions, result, run, start, prev, input>>

\* main.rs:72-75, 90-93: the run returned an error.
MainErr ==
    /\ pc = "done"
    /\ result = "err"
    /\ output' = Append(output, Line("Error", <<>>))
    /\ Exit(1)
    /\ UNCHANGED <<mode, dry_run, delete, exclude, remote, store, fs, paths,
                   objects, remote_files, local_files, visited, swept, calls,
                   actions, result, run, start, prev, input>>

\* main.rs:98: the run returned Ok.
MainOk ==
    /\ pc = "done"
    /\ result = "ok"
    /\ output' = Append(output, Line("Sync complete", <<>>))
    /\ Exit(0)
    /\ UNCHANGED <<mode, dry_run, delete, exclude, remote, store, fs, paths,
                   objects, remote_files, local_files, visited, swept, calls,
                   actions, result, run, start, prev, input>>

NextMain ==
    \/ MainNoKey \/ MainPanic \/ MainMissingPath \/ MainInvalid
    \/ MainPush \/ MainPull
    \/ ListOk \/ ListFail \/ ListReturn
    \/ WalkOk \/ WalkFail
    \/ PushSkip \/ PushDry \/ PushReadFail \/ PushPutFail \/ PushOk
    \/ PullSkip \/ PullDry \/ PullGetFail \/ PullMkdirFail
    \/ PullWriteFail \/ PullOk
    \/ TransferDone
    \/ PushDelKeep \/ PushDelDry \/ PushDelFail \/ PushDelOk
    \/ PullDelKeep \/ PullDelDry \/ PullDelFail \/ PullDelOk
    \/ DeleteDone
    \/ MainErr \/ MainOk

SpecMain == InitMain /\ [][NextMain]_vars

\* C16 - direction selection: when the process has ended, a push run was
\* made iff the source has no zone:// marker and the destination has one,
\* a pull run iff the source has it and the destination has not; when both
\* or neither have it nothing was enumerated, transferred or deleted and
\* the exit status is a failure; and "Sync complete" was printed only
\* after the run that was selected returned without error.
C16_DirectionSelection ==
    returned # <<>> =>
        /\ mode = "push" <=>
              (~is_zone(input.source) /\ is_zone(input.destination))
        /\ mode = "pull" <=>
              (is_zone(input.source) /\ ~is_zone(input.destination))
        /\ is_zone(input.source) = is_zone(input.destination) =>
              /\ calls = <<>> /\ actions = <<>>
              /\ returned[1] # 0
        /\ (\E i \in DOMAIN output : output[i].text = "Sync complete") =>
              /\ result = "ok"
              /\ mode \in {"push", "pull"}

\* C21 - path mapper without zone prefix: for a remote path that does not
\* begin with /z/ (and is neither empty nor the zone name alone) the result
\* is the local base followed by the whole of the path (in canonical form
\* when it exists), so it lies under the base.
C21_WithoutZonePrefix ==
    (returned # <<>> /\ ~HasZonePrefix) =>
        LET b == Components(input.local_base)
            under == (IF input.exists /\ ~b.has_root
                      THEN Components(CurrentDir).normal ELSE <<>>)
                     \o b.normal
            got == Components(returned[1])
        IN /\ got.normal = under \o Components(input.remote_path).normal
           /\ got.has_root = (b.has_root \/ input.exists)
           /\ IsPrefix(under, got.normal)

\* ------------------------------------------------ main.rs read_config_file
\* An Option is <<>> (None) or <<v>> (Some(v)).
Options(S) == {<<>>} \cup {<<v>> : v \in S}
ConfigName == ".bunnysync"
ConfigLists == UNION {[1..n -> {"b", ConfigName}] : n \in 0..MaxPatterns}

\* The arguments that read_config_file can change, as the command line and
\* the environment give them.
ArgsValues ==
    [api_key : Options({"k"}), region : {"de", "uk"}, exclude : ConfigLists]
\* The file .bunnysync of the current directory: whether it can be read,
\* whether it is valid TOML for Config, and the keys it holds.
ConfigFiles ==
    {[found |-> FALSE, valid |-> FALSE, api_key |-> <<>>, region |-> <<>>,
      exclude |-> <<>>]}
    \cup [found : {TRUE}, valid : BOOLEAN, api_key : Options({"c"}),
          region : Options({"ny"}), exclude : Options(ConfigLists)]

\* main.rs:107-125.
read_config_file(args, config) ==
    IF ~config.found THEN [ok |-> TRUE, args |-> args]
    ELSE IF ~config.valid THEN [ok |-> FALSE, args |-> args]
    ELSE [ok |-> TRUE,
          args |->
            [api_key |-> IF config.api_key # <<>> THEN config.api_key
                         ELSE args.api_key,
             region |-> IF config.region # <<>> THEN config.region[1]
                        ELSE args.region,
             exclude |-> IF config.exclude # <<>>
                         THEN Append(config.exclude[1], ConfigName)
                         ELSE args.exclude]]

InitConfig ==
    /\ NoRun
    /\ input \in [args : ArgsValues, config : ConfigFiles]
    /\ returned = <<>>

CallReadConfigFile ==
    /\ pc = "call"
    /\ returned' = <<read_config_file(input.args, input.config)>>
    /\ pc' = "returned"
    /\ UNCHANGED <<mode, dry_run, delete, exclude, remote, store, fs, paths,
                   objects, remote_files, local_files, visited, swept, calls,
                   actions, output, result, run, start, prev, input>>

NextConfig == CallReadConfigFile

SpecConfig == InitConfig /\ [][NextConfig]_vars

\* C22 - forced exclusion of the config file: whenever the file .bunnysync
\* is found and read, the exclusion list handed to the sync run contains
\* the pattern .bunnysync, whatever keys the file holds.
C22_ConfigFileExcluded ==
    (returned # <<>> /\ input.config.found /\ returned[1].ok) =>
        \E i \in DOMAIN returned[1].args.exclude :
            returned[1].args.exclude[i] = ConfigName

\* The calls a Transfer makes, and the calls a Delete makes.
TransferOps == {"read", "put", "get", "mkdir", "write"}
DeleteOps == {"delete", "remove"}

\* C23 - action ordering: every Delete of a run, and every call it makes,
\* comes after all Transfers of the run and their calls, the update loop
\* having gone over every key of its map; when a Transfer call has failed
\* the run has issued no Delete; and no key has both a Transfer and a
\* Delete.
C23_ActionOrdering ==
    /\ \A i, j \in DOMAIN actions :
          (actions[i].kind = "transfer" /\ actions[j].kind = "delete") =>
              /\ i < j
              /\ actions[i].key # actions[j].key
    /\ \A i, j \in DOMAIN calls :
          (calls[i].op \in TransferOps /\ calls[j].op \in DeleteOps) => i < j
    /\ (\E j \in DOMAIN actions : actions[j].kind = "delete") =>
          visited = (IF mode = "push" THEN DOMAIN local_files
                     ELSE DOMAIN remote_files)
    /\ (\E i \in DOMAIN calls : calls[i].op \in TransferOps /\ ~calls[i].ok) =>
          /\ \A j \in DOMAIN actions : actions[j].kind # "delete"
          /\ \A j \in DOMAIN calls : calls[j].op \notin DeleteOps
          /\ pc = "done" /\ result = "err"

\* A live pull run that returned Ok after a Transfer and then a Delete.
C23_Witness ==
    /\ mode = "pull" /\ ~dry_run /\ result = "ok"
    /\ \E i \in DOMAIN actions : actions[i].kind = "transfer"
    /\ \E i \in DOMAIN actions : actions[i].kind = "delete"
    /\ \E i \in DOMAIN calls : calls[i].op = "remove" /\ calls[i].ok

====
